---- MODULE Spec2Model ----
(***************************************************************************)
(* Model of package wait (list.go, queue/queue.go): List[Item], a pool     *)
(* with a LIFO stack of ready items, a FIFO queue of waiter channels, a    *)
(* lazily bounded number of loads, and Close.                              *)
(*                                                                         *)
(* Every call of Take, Put, TryTake and Close is a one-shot process; the   *)
(* calls of one kind are numbered in the order in which they begin.  A     *)
(* goroutine that calls the same operation repeatedly is one of the        *)
(* interleavings of these calls.  Steps are split wherever the code reads  *)
(* or writes state that is not protected by a mutex it holds (the atomic   *)
(* closed flag, the context, a channel, chanPool); acquiring a mutex is    *)
(* merged with the first step of its critical section and releasing it     *)
(* with the last one.                                                      *)
(***************************************************************************)
EXTENDS Naturals, Sequences, FiniteSets

\* Bounds of the model: numbers of calls of each operation.
NTakers == 2
NPutters == 1
NClosers == 2
NTryTakers == 1
\* Largest value the configuration fields MaxItems and MaxWaiters take.
MaxCfg == 1

Takers == 1..NTakers
\* Put calls: 1..NPutters are calls by the user; NPutters + t is the call
\* made by the goroutine that Take call t spawns (list.go:143).
PutIds == 1..(NPutters + NTakers)
Closers == 1..NClosers
TryTakers == 1..NTryTakers
LoaderOf(t) == NPutters + t

\* The zero value of Item (var zero T).
Zero == 0
\* An Item is opaque to the List; every Put call carries its own item.
ItemOf(q) == q

\* No channel (a nil chan Item).
NoChan == 0
\* Owner of a mutex that nobody holds.
Unlocked == <<"none", 0>>

ErrNil == "nil"
ErrMaxWaiters == "too many waiters"
ErrClosed == "closed"
\* context.Cause(ctx) of a cancelled context.
ErrCanceled == "context canceled"
\* Result of a call that has not returned.
Pending == "pending"

VARIABLES
    MaxItems,    \* List.MaxItems
    MaxWaiters,  \* List.MaxWaiters
    readyMu,     \* List.readyMu: its owner
    ready,       \* List.ready: queue.Lifo[Item].a
    loads,       \* List.loads
    waitersMu,   \* List.waitersMu: its owner
    waiters,     \* List.waiters: queue.Fifo[chan Item].a
    chanPool,    \* List.chanPool: the channels a Get may return
    closed,      \* List.closed
    nChans,      \* channels made so far by make(chan T, 1)
    buf,         \* buf[c]: the buffer of channel c (capacity 1)
    chClosed,    \* chClosed[c]: close(c) has run
    panicked,    \* the program has panicked
    tpc,         \* tpc[t]: position of Take call t
    tch,         \* tch[t]: the local ch of Take call t
    ctxDone,     \* ctxDone[t]: the ctx of Take call t is cancelled
    tres,        \* tres[t]: what Take call t returned
    ppc,         \* ppc[q]: position of Put call q
    pch,         \* pch[q]: the local ch of maybeHandoff in Put call q
    pres,        \* pres[q]: what Put call q returned
    cpc,         \* cpc[k]: position of Close call k
    ypc,         \* ypc[y]: position of TryTake call y
    yres,        \* yres[y]: what TryTake call y returned
    \* History variables (not program state; read only by the properties).
    regNo,       \* regNo[t]: Take call t made the regNo[t]-th Unshift
    handNo,      \* handNo[q]: Put call q made the handNo[q]-th such Shift
    wowner,      \* wowner[i]: the Take call that enqueued waiters[i]
    ptarget,     \* ptarget[q]: the Take call whose entry Put call q shifted
    pLate,       \* pLate[q]: Put call q began with the closed flag set
    tAfterClose, \* tAfterClose[t]: Take call t began after a Close returned
    tAtClose,    \* tAtClose[t]: Take call t was blocked in the queue when
                 \* Close drained it
    yClosed      \* yClosed[y]: TryTake call y ran with the closed flag set

poolVars == <<MaxItems, MaxWaiters, readyMu, ready, loads, waitersMu, waiters,
              chanPool, closed, nChans, buf, chClosed, panicked>>
takeVars == <<tpc, tch, ctxDone, tres>>
putVars == <<ppc, pch, pres>>
otherVars == <<cpc, ypc, yres>>
histVars == <<regNo, handNo, wowner, ptarget, pLate,
              tAfterClose, tAtClose, yClosed>>
vars == <<poolVars, takeVars, putVars, otherVars, histVars>>

Chans == 1..NTakers

Range(s) == {s[i] : i \in 1..Len(s)}

\* History read off the state.
\* Number of invocations of a load function so far.
loadCalls == Cardinality({q \in PutIds : q > NPutters /\ ppc[q] \notin {"unborn", "begin"}})
\* Number of waiters.Unshift calls so far.
nReg == Cardinality({t \in Takers : regNo[t] > 0})
\* Number of successful waiters.Shift calls by Put so far.
nHand == Cardinality({q \in PutIds : handNo[q] > 0})

--------------------------------------------------------------------------
\* queue.Lifo and queue.Fifo

\* Lifo.Push: append.
Push(a, v) == Append(a, v)
\* Lifo.Pop on a non-empty stack: the last element, and the rest.
PopValue(a) == a[Len(a)]
PopRest(a) == SubSeq(a, 1, Len(a) - 1)
\* Mutant of Unshift: the new waiter goes to the head of the queue.
UnshiftFront(a, v) == <<v>> \o a
\* Fifo.Unshift: append at the tail.
Unshift(a, v) == Append(a, v)
\* Fifo.Shift on a non-empty queue: the first element, and the rest.
ShiftValue(a) == a[1]
\* Mutant of ShiftRest: Shift drops the entry behind the head as well.
ShiftRestTwo(a) == SubSeq(a, 3, Len(a))
ShiftRest(a) == SubSeq(a, 2, Len(a))
\* Indices that Fifo.DeleteFunc(func(w) bool { return w == ch }) keeps.
RECURSIVE KeptIdx(_, _, _)
KeptIdx(a, ch, i) ==
    IF i > Len(a) THEN <<>>
    ELSE IF a[i] = ch THEN KeptIdx(a, ch, i + 1)
    ELSE <<i>> \o KeptIdx(a, ch, i + 1)
\* The elements of b at the indices ix.
Pick(b, ix) == [j \in 1..Len(ix) |-> b[ix[j]]]
DeleteFunc(a, ch) == Pick(a, KeptIdx(a, ch, 1))

--------------------------------------------------------------------------
Init ==
    /\ MaxItems \in 0..MaxCfg
    /\ MaxWaiters \in 0..MaxCfg
    /\ readyMu = Unlocked
    /\ ready = <<>>
    /\ loads = 0
    /\ waitersMu = Unlocked
    /\ waiters = <<>>
    /\ chanPool = {}
    /\ closed = FALSE
    /\ nChans = 0
    /\ buf = [c \in Chans |-> <<>>]
    /\ chClosed = [c \in Chans |-> FALSE]
    /\ panicked = FALSE
    /\ tpc = [t \in Takers |-> "begin"]
    /\ tch = [t \in Takers |-> NoChan]
    /\ ctxDone = [t \in Takers |-> FALSE]
    /\ tres = [t \in Takers |-> [v |-> Zero, err |-> Pending]]
    /\ ppc = [q \in PutIds |-> IF q <= NPutters THEN "begin" ELSE "unborn"]
    /\ pch = [q \in PutIds |-> NoChan]
    /\ pres = [q \in PutIds |-> Pending]
    /\ cpc = [k \in Closers |-> "begin"]
    /\ ypc = [y \in TryTakers |-> "begin"]
    /\ yres = [y \in TryTakers |-> [v |-> Zero, ok |-> FALSE]]
    /\ regNo = [t \in Takers |-> 0]
    /\ handNo = [q \in PutIds |-> 0]
    /\ wowner = <<>>
    /\ ptarget = [q \in PutIds |-> 0]
    /\ pLate = [q \in PutIds |-> FALSE]
    /\ tAfterClose = [t \in Takers |-> FALSE]
    /\ tAtClose = [t \in Takers |-> FALSE]
    /\ yClosed = [y \in TryTakers |-> FALSE]

--------------------------------------------------------------------------
\* Take (list.go:99-163)

\* The caller's cancel function runs during the call: ctx becomes done.
Cancel(t) ==
    /\ ~panicked
    /\ tpc[t] \notin {"begin", "done"}
    /\ ~ctxDone[t]
    /\ ctxDone' = [ctxDone EXCEPT ![t] = TRUE]
    /\ UNCHANGED <<poolVars, tpc, tch, tres, putVars, otherVars, histVars>>

\* Mutant of TakeBegin: the closed flag is checked before the ready stack.
TakeBeginClosedFirst(t) ==
    /\ ~panicked
    /\ tpc[t] = "begin"
    /\ t > 1 => tpc[t - 1] # "begin"
    /\ readyMu = Unlocked
    /\ \E done \in BOOLEAN : ctxDone' = [ctxDone EXCEPT ![t] = done]
    /\ tAfterClose' = [tAfterClose EXCEPT
                          ![t] = \E k \in Closers : cpc[k] = "done"]
    /\ IF closed
       THEN /\ tres' = [tres EXCEPT ![t] = [v |-> Zero, err |-> ErrClosed]]
            /\ tpc' = [tpc EXCEPT ![t] = "done"]
            /\ UNCHANGED <<ready, readyMu>>
       ELSE IF ready # <<>>
       THEN /\ ready' = PopRest(ready)
            /\ tres' = [tres EXCEPT ![t] = [v |-> PopValue(ready), err |-> ErrNil]]
            /\ tpc' = [tpc EXCEPT ![t] = "done"]
            /\ UNCHANGED readyMu
       ELSE /\ readyMu' = <<"take", t>>
            /\ tpc' = [tpc EXCEPT ![t] = "checkClosed"]
            /\ UNCHANGED <<ready, tres>>
    /\ UNCHANGED <<MaxItems, MaxWaiters, loads, waitersMu, waiters, chanPool,
                   closed, nChans, buf, chClosed, panicked, tch,
                   putVars, otherVars, regNo, handNo,
                   wowner, ptarget, pLate, tAtClose, yClosed>>

\* list.go:102-109: lock readyMu and pop a ready item; return it if any.
\* The caller passes a live context or one that is already cancelled.
TakeBegin(t) ==
    /\ ~panicked
    /\ tpc[t] = "begin"
    /\ t > 1 => tpc[t - 1] # "begin"
    /\ readyMu = Unlocked
    /\ \E done \in BOOLEAN : ctxDone' = [ctxDone EXCEPT ![t] = done]
    /\ tAfterClose' = [tAfterClose EXCEPT
                          ![t] = \E k \in Closers : cpc[k] = "done"]
    /\ IF ready # <<>>
       THEN /\ ready' = PopRest(ready)
            /\ tres' = [tres EXCEPT ![t] = [v |-> PopValue(ready), err |-> ErrNil]]
            /\ tpc' = [tpc EXCEPT ![t] = "done"]
            /\ UNCHANGED readyMu
       ELSE /\ readyMu' = <<"take", t>>
            /\ tpc' = [tpc EXCEPT ![t] = "checkClosed"]
            /\ UNCHANGED <<ready, tres>>
    /\ UNCHANGED <<MaxItems, MaxWaiters, loads, waitersMu, waiters, chanPool,
                   closed, nChans, buf, chClosed, panicked, tch,
                   putVars, otherVars, regNo, handNo,
                   wowner, ptarget, pLate, tAtClose, yClosed>>

\* Mutant of TakeCheckClosed: the context is checked before the closed flag.
TakeCheckCtxFirst(t) ==
    /\ ~panicked
    /\ tpc[t] = "checkClosed"
    /\ IF ctxDone[t]
       THEN /\ readyMu' = Unlocked
            /\ tres' = [tres EXCEPT ![t] = [v |-> Zero, err |-> ErrCanceled]]
            /\ tpc' = [tpc EXCEPT ![t] = "done"]
       ELSE IF closed
       THEN /\ readyMu' = Unlocked
            /\ tres' = [tres EXCEPT ![t] = [v |-> Zero, err |-> ErrClosed]]
            /\ tpc' = [tpc EXCEPT ![t] = "done"]
       ELSE /\ tpc' = [tpc EXCEPT ![t] = "checkCtx"]
            /\ UNCHANGED <<readyMu, tres>>
    /\ UNCHANGED <<MaxItems, MaxWaiters, ready, loads, waitersMu, waiters,
                   chanPool, closed, nChans, buf, chClosed, panicked, tch,
                   ctxDone, putVars, otherVars, histVars>>

\* list.go:112-115: no ready item; return ErrClosed if the List is closed.
TakeCheckClosed(t) ==
    /\ ~panicked
    /\ tpc[t] = "checkClosed"
    /\ IF closed
       THEN /\ readyMu' = Unlocked
            /\ tres' = [tres EXCEPT ![t] = [v |-> Zero, err |-> ErrClosed]]
            /\ tpc' = [tpc EXCEPT ![t] = "done"]
       ELSE /\ tpc' = [tpc EXCEPT ![t] = "checkCtx"]
            /\ UNCHANGED <<readyMu, tres>>
    /\ UNCHANGED <<MaxItems, MaxWaiters, ready, loads, waitersMu, waiters,
                   chanPool, closed, nChans, buf, chClosed, panicked, tch,
                   ctxDone, putVars, otherVars, histVars>>

\* Mutant of TakeCheckCtx: the context is not checked before queueing.
TakeCheckCtxSkipped(t) ==
    /\ ~panicked
    /\ tpc[t] = "checkCtx"
    /\ tpc' = [tpc EXCEPT ![t] = "register"]
    /\ UNCHANGED <<poolVars, tch, ctxDone, tres, putVars, otherVars, histVars>>

\* list.go:117-120: return the cause if ctx is already done.
TakeCheckCtx(t) ==
    /\ ~panicked
    /\ tpc[t] = "checkCtx"
    /\ IF ctxDone[t]
       THEN /\ readyMu' = Unlocked
            /\ tres' = [tres EXCEPT ![t] = [v |-> Zero, err |-> ErrCanceled]]
            /\ tpc' = [tpc EXCEPT ![t] = "done"]
       ELSE /\ tpc' = [tpc EXCEPT ![t] = "register"]
            /\ UNCHANGED <<readyMu, tres>>
    /\ UNCHANGED <<MaxItems, MaxWaiters, ready, loads, waitersMu, waiters,
                   chanPool, closed, nChans, buf, chClosed, panicked, tch,
                   ctxDone, putVars, otherVars, histVars>>

\* Mutant of WaitersFull: the limit is compared with > instead of >=.
WaitersFullOffByOne == MaxWaiters > 0 /\ Len(waiters) > MaxWaiters

\* list.go:125: the MaxWaiters check.
WaitersFull == MaxWaiters > 0 /\ Len(waiters) >= MaxWaiters

\* Mutant of TakeReject: the load is counted before the MaxWaiters check.
TakeRejectCounted(t) ==
    /\ readyMu' = Unlocked
    /\ tres' = [tres EXCEPT ![t] = [v |-> Zero, err |-> ErrMaxWaiters]]
    /\ tpc' = [tpc EXCEPT ![t] = "done"]
    /\ loads' = loads + 1
    /\ UNCHANGED <<waitersMu, waiters, chanPool, nChans, buf, chClosed, tch,
                   regNo, wowner>>

\* list.go:126-128: unlock both mutexes and return ErrMaxWaiters.
TakeReject(t) ==
    /\ readyMu' = Unlocked
    /\ tres' = [tres EXCEPT ![t] = [v |-> Zero, err |-> ErrMaxWaiters]]
    /\ tpc' = [tpc EXCEPT ![t] = "done"]
    /\ UNCHANGED <<waitersMu, waiters, chanPool, nChans, buf, chClosed, tch,
                   regNo, wowner, loads>>

\* list.go:122-136: lock waitersMu; return ErrMaxWaiters if the queue is
\* full; otherwise take a channel from chanPool (sync.Pool.Get returns one
\* of the pooled channels or nothing) or make one, and get in line.
TakeRegister(t) ==
    /\ ~panicked
    /\ tpc[t] = "register"
    /\ waitersMu = Unlocked
    /\ IF WaitersFull
       THEN TakeReject(t)
       ELSE /\ \/ \E c \in chanPool :
                    /\ tch' = [tch EXCEPT ![t] = c]
                    /\ chanPool' = chanPool \ {c}
                    /\ waiters' = Unshift(waiters, c)
                    /\ UNCHANGED <<nChans, buf, chClosed>>
               \/ /\ nChans' = nChans + 1
                  /\ tch' = [tch EXCEPT ![t] = nChans + 1]
                  /\ waiters' = Unshift(waiters, nChans + 1)
                  /\ buf' = [buf EXCEPT ![nChans + 1] = <<>>]
                  /\ chClosed' = [chClosed EXCEPT ![nChans + 1] = FALSE]
                  /\ UNCHANGED chanPool
            /\ waitersMu' = <<"take", t>>
            /\ tpc' = [tpc EXCEPT ![t] = "spawn"]
            /\ regNo' = [regNo EXCEPT ![t] = nReg + 1]
            /\ wowner' = Append(wowner, t)
            /\ UNCHANGED <<readyMu, tres, loads>>
    /\ UNCHANGED <<MaxItems, MaxWaiters, ready, closed, panicked,
                   ctxDone, putVars, otherVars, handNo,
                   ptarget, pLate, tAfterClose, tAtClose, yClosed>>

\* Mutant of MayLoad: the limit is compared with <= instead of <.
MayLoadOffByOne(t) == ~ctxDone[t] /\ (MaxItems = 0 \/ loads <= MaxItems)

\* list.go:138: whether Take starts a load.
MayLoad(t) == ~ctxDone[t] /\ (MaxItems = 0 \/ loads < MaxItems)

\* list.go:138-147: count and spawn the load goroutine if allowed, then
\* unlock both mutexes.
TakeSpawn(t) ==
    /\ ~panicked
    /\ tpc[t] = "spawn"
    /\ IF MayLoad(t)
       THEN /\ loads' = loads + 1
            /\ ppc' = [ppc EXCEPT ![LoaderOf(t)] = "begin"]
       ELSE UNCHANGED <<loads, ppc>>
    /\ waitersMu' = Unlocked
    /\ readyMu' = Unlocked
    /\ tpc' = [tpc EXCEPT ![t] = "wait"]
    /\ UNCHANGED <<MaxItems, MaxWaiters, ready, waiters, chanPool, closed,
                   nChans, buf, chClosed, panicked, tch, ctxDone, tres, pch,
                   pres, otherVars, histVars>>

\* list.go:151-156: the select receives from ch (a value, or the closed
\* signal once the buffer is empty), returns ch to chanPool and returns.
TakeRecv(t) ==
    /\ ~panicked
    /\ tpc[t] = "wait"
    /\ buf[tch[t]] # <<>> \/ chClosed[tch[t]]
    /\ IF buf[tch[t]] # <<>>
       THEN /\ tres' = [tres EXCEPT ![t] = [v |-> buf[tch[t]][1], err |-> ErrNil]]
            /\ buf' = [buf EXCEPT ![tch[t]] = <<>>]
       ELSE /\ tres' = [tres EXCEPT ![t] = [v |-> Zero, err |-> ErrClosed]]
            /\ UNCHANGED buf
    /\ chanPool' = chanPool \cup {tch[t]}
    /\ tch' = [tch EXCEPT ![t] = NoChan]
    /\ tpc' = [tpc EXCEPT ![t] = "done"]
    /\ UNCHANGED <<MaxItems, MaxWaiters, readyMu, ready, loads, waitersMu,
                   waiters, closed, nChans, chClosed, panicked, ctxDone,
                   putVars, otherVars, histVars>>

\* Mutant of HandleCancelDelete: ch is left in the waiters queue.
HandleCancelNoDelete(t) ==
    /\ ~panicked
    /\ tpc[t] = "wait"
    /\ ctxDone[t]
    /\ waitersMu = Unlocked
    /\ tpc' = [tpc EXCEPT ![t] = "cancelRecv"]
    /\ UNCHANGED <<poolVars, tch, ctxDone, tres, putVars, otherVars, histVars>>

\* list.go:157-159 and 233-237: the select takes the ctx.Done() case and
\* handleCancel removes ch from the waiters queue.  Taking the case reads
\* only the context, which stays done, so it is one step with the removal.
HandleCancelDelete(t) ==
    /\ ~panicked
    /\ tpc[t] = "wait"
    /\ ctxDone[t]
    /\ waitersMu = Unlocked
    /\ waiters' = DeleteFunc(waiters, tch[t])
    /\ wowner' = Pick(wowner, KeptIdx(waiters, tch[t], 1))
    /\ tpc' = [tpc EXCEPT ![t] = "cancelRecv"]
    /\ UNCHANGED <<MaxItems, MaxWaiters, readyMu, ready, loads, waitersMu,
                   chanPool, closed, nChans, buf, chClosed, panicked, tch,
                   ctxDone, tres, putVars, otherVars, regNo, handNo, ptarget,
                   pLate, tAfterClose, tAtClose, yClosed>>

\* list.go:239-246 and 160-161: the non-blocking receive of handleCancel (a
\* receive from a closed, empty channel succeeds with the zero value), then
\* ch goes back to chanPool and Take returns.
HandleCancelRecv(t) ==
    /\ ~panicked
    /\ tpc[t] = "cancelRecv"
    /\ IF buf[tch[t]] # <<>>
       THEN /\ tres' = [tres EXCEPT ![t] = [v |-> buf[tch[t]][1], err |-> ErrNil]]
            /\ buf' = [buf EXCEPT ![tch[t]] = <<>>]
       ELSE /\ tres' = [tres EXCEPT ![t] =
                          IF chClosed[tch[t]]
                          THEN [v |-> Zero, err |-> ErrNil]
                          ELSE [v |-> Zero, err |-> ErrCanceled]]
            /\ UNCHANGED buf
    /\ chanPool' = chanPool \cup {tch[t]}
    /\ tch' = [tch EXCEPT ![t] = NoChan]
    /\ tpc' = [tpc EXCEPT ![t] = "done"]
    /\ UNCHANGED <<MaxItems, MaxWaiters, readyMu, ready, loads, waitersMu,
                   waiters, closed, nChans, chClosed, panicked, ctxDone,
                   putVars, otherVars, histVars>>

--------------------------------------------------------------------------
\* Put (list.go:179-221)

\* Mutant of PutBegin: the closed flag is not checked on entry.
PutBeginNoCheck(q) ==
    /\ ~panicked
    /\ ppc[q] = "begin"
    /\ q \in 2..NPutters => ppc[q - 1] # "begin"
    /\ ppc' = [ppc EXCEPT ![q] = "handoff"]
    /\ pLate' = [pLate EXCEPT ![q] = closed]
    /\ UNCHANGED <<poolVars, takeVars, pch, pres, otherVars, regNo, handNo,
                   wowner, ptarget, tAfterClose, tAtClose, yClosed>>

\* list.go:180-182: Put returns false if the List is closed.  In a spawned
\* goroutine (list.go:143) the call of load, which yields the item and
\* touches nothing of the List, comes first in this step.
PutBegin(q) ==
    /\ ~panicked
    /\ ppc[q] = "begin"
    /\ q \in 2..NPutters => ppc[q - 1] # "begin"
    /\ IF closed
       THEN /\ pres' = [pres EXCEPT ![q] = "false"]
            /\ ppc' = [ppc EXCEPT ![q] = "done"]
       ELSE /\ ppc' = [ppc EXCEPT ![q] = "handoff"]
            /\ UNCHANGED pres
    /\ pLate' = [pLate EXCEPT ![q] = closed]
    /\ UNCHANGED <<poolVars, takeVars, pch, otherVars, regNo, handNo, wowner,
                   ptarget, tAfterClose, tAtClose, yClosed>>

\* list.go:185-187 in maybeHandoff: lock waitersMu, Shift, unlock.  next is
\* the position after a successful Shift, none the one after a failed Shift.
Handoff(q, next, none) ==
    /\ waitersMu = Unlocked
    /\ IF waiters # <<>>
       THEN /\ pch' = [pch EXCEPT ![q] = ShiftValue(waiters)]
            /\ waiters' = ShiftRest(waiters)
            /\ wowner' = ShiftRest(wowner)
            /\ ptarget' = [ptarget EXCEPT ![q] = ShiftValue(wowner)]
            /\ handNo' = [handNo EXCEPT ![q] = nHand + 1]
            /\ ppc' = [ppc EXCEPT ![q] = next]
       ELSE /\ ppc' = [ppc EXCEPT ![q] = none]
            /\ UNCHANGED <<pch, waiters, wowner, ptarget, handNo>>

\* list.go:188-194 in maybeHandoff: the non-blocking send of v on ch.  A
\* send on a full channel takes the default case and panics; a send on a
\* closed channel panics.
Send(q) ==
    IF chClosed[pch[q]] \/ buf[pch[q]] # <<>>
    THEN /\ panicked' = TRUE
         /\ UNCHANGED <<buf, pres, ppc, pch>>
    ELSE /\ buf' = [buf EXCEPT ![pch[q]] = <<ItemOf(q)>>]
         /\ pres' = [pres EXCEPT ![q] = "true"]
         /\ ppc' = [ppc EXCEPT ![q] = "done"]
         /\ pch' = [pch EXCEPT ![q] = NoChan]
         /\ UNCHANGED panicked

\* list.go:200: the first maybeHandoff, up to the Shift.
PutHandoff(q) ==
    /\ ~panicked
    /\ ppc[q] = "handoff"
    /\ Handoff(q, "send", "lockReady")
    /\ UNCHANGED <<MaxItems, MaxWaiters, readyMu, ready, loads, waitersMu,
                   chanPool, closed, nChans, buf, chClosed, panicked,
                   takeVars, pres, otherVars, regNo,
                   pLate, tAfterClose, tAtClose, yClosed>>

\* list.go:200-202: the send of the first maybeHandoff; Put returns true.
PutSend(q) ==
    /\ ~panicked
    /\ ppc[q] = "send"
    /\ Send(q)
    /\ UNCHANGED <<MaxItems, MaxWaiters, readyMu, ready, loads, waitersMu,
                   waiters, chanPool, closed, nChans, chClosed, takeVars,
                   otherVars, histVars>>

\* list.go:204-209: lock readyMu; return false if closed meanwhile.
PutLockReady(q) ==
    /\ ~panicked
    /\ ppc[q] = "lockReady"
    /\ readyMu = Unlocked
    /\ IF closed
       THEN /\ pres' = [pres EXCEPT ![q] = "false"]
            /\ ppc' = [ppc EXCEPT ![q] = "done"]
            /\ UNCHANGED readyMu
       ELSE /\ readyMu' = <<"put", q>>
            /\ ppc' = [ppc EXCEPT ![q] = "handoffLocked"]
            /\ UNCHANGED pres
    /\ UNCHANGED <<MaxItems, MaxWaiters, ready, loads, waitersMu, waiters,
                   chanPool, closed, nChans, buf, chClosed, panicked,
                   takeVars, pch, otherVars, histVars>>

\* Mutant of PutHandoffLocked: v is pushed without a second maybeHandoff.
PutPushOnly(q) ==
    /\ ~panicked
    /\ ppc[q] = "handoffLocked"
    /\ ppc' = [ppc EXCEPT ![q] = "done"]
    /\ ready' = Push(ready, ItemOf(q))
    /\ readyMu' = Unlocked
    /\ pres' = [pres EXCEPT ![q] = "true"]
    /\ UNCHANGED <<MaxItems, MaxWaiters, loads, waitersMu, waiters, chanPool,
                   closed, nChans, buf, chClosed, panicked, takeVars, pch,
                   otherVars, histVars>>

\* list.go:213 and 218-220: the second maybeHandoff, up to the Shift; with
\* no waiter, push v on the ready stack, unlock readyMu and return true.
PutHandoffLocked(q) ==
    /\ ~panicked
    /\ ppc[q] = "handoffLocked"
    /\ Handoff(q, "sendLocked", "done")
    /\ IF waiters # <<>>
       THEN UNCHANGED <<ready, readyMu, pres>>
       ELSE /\ ready' = Push(ready, ItemOf(q))
            /\ readyMu' = Unlocked
            /\ pres' = [pres EXCEPT ![q] = "true"]
    /\ UNCHANGED <<MaxItems, MaxWaiters, loads, waitersMu, chanPool, closed,
                   nChans, buf, chClosed, panicked, takeVars, otherVars,
                   regNo, pLate, tAfterClose, tAtClose, yClosed>>

\* list.go:213-216: the send of the second maybeHandoff; unlock readyMu and
\* return true.
PutSendLocked(q) ==
    /\ ~panicked
    /\ ppc[q] = "sendLocked"
    /\ Send(q)
    /\ readyMu' = IF panicked' THEN readyMu ELSE Unlocked
    /\ UNCHANGED <<MaxItems, MaxWaiters, ready, loads, waitersMu, waiters,
                   chanPool, closed, nChans, chClosed, takeVars,
                   otherVars, histVars>>

--------------------------------------------------------------------------
\* TryTake (list.go:168-172)

\* Mutant of TryTake: a closed List yields nothing.
TryTakeUnlessClosed(y) ==
    /\ ~panicked
    /\ ypc[y] = "begin"
    /\ readyMu = Unlocked
    /\ IF ready # <<>> /\ ~closed
       THEN /\ ready' = PopRest(ready)
            /\ yres' = [yres EXCEPT ![y] = [v |-> PopValue(ready), ok |-> TRUE]]
       ELSE /\ yres' = [yres EXCEPT ![y] = [v |-> Zero, ok |-> FALSE]]
            /\ UNCHANGED ready
    /\ ypc' = [ypc EXCEPT ![y] = "done"]
    /\ yClosed' = [yClosed EXCEPT ![y] = closed]
    /\ UNCHANGED <<MaxItems, MaxWaiters, readyMu, loads, waitersMu, waiters,
                   chanPool, closed, nChans, buf, chClosed, panicked,
                   takeVars, putVars, cpc, regNo, handNo, wowner, ptarget,
                   pLate, tAfterClose, tAtClose>>

\* list.go:169-171: lock readyMu, Pop, unlock.
TryTake(y) ==
    /\ ~panicked
    /\ ypc[y] = "begin"
    /\ readyMu = Unlocked
    /\ IF ready # <<>>
       THEN /\ ready' = PopRest(ready)
            /\ yres' = [yres EXCEPT ![y] = [v |-> PopValue(ready), ok |-> TRUE]]
       ELSE /\ yres' = [yres EXCEPT ![y] = [v |-> Zero, ok |-> FALSE]]
            /\ UNCHANGED ready
    /\ ypc' = [ypc EXCEPT ![y] = "done"]
    /\ yClosed' = [yClosed EXCEPT ![y] = closed]
    /\ UNCHANGED <<MaxItems, MaxWaiters, readyMu, loads, waitersMu, waiters,
                   chanPool, closed, nChans, buf, chClosed, panicked,
                   takeVars, putVars, cpc, regNo, handNo, wowner, ptarget,
                   pLate, tAfterClose, tAtClose>>

--------------------------------------------------------------------------
\* Close (list.go:69-86)

\* Mutant of CloseSwap: a Close on a closed List drains the queue again.
CloseSwapAlwaysDrain(k) ==
    /\ ~panicked
    /\ cpc[k] = "begin"
    /\ k > 1 => cpc[k - 1] # "begin"
    /\ closed' = TRUE
    /\ cpc' = [cpc EXCEPT ![k] = "drain"]
    /\ UNCHANGED <<MaxItems, MaxWaiters, readyMu, ready, loads, waitersMu,
                   waiters, chanPool, nChans, buf, chClosed, panicked,
                   takeVars, putVars, ypc, yres, histVars>>

\* list.go:70-73: closed.Swap(true); return if it was already set.
CloseSwap(k) ==
    /\ ~panicked
    /\ cpc[k] = "begin"
    /\ k > 1 => cpc[k - 1] # "begin"
    /\ closed' = TRUE
    /\ cpc' = [cpc EXCEPT ![k] = IF closed THEN "done" ELSE "drain"]
    /\ UNCHANGED <<MaxItems, MaxWaiters, readyMu, ready, loads, waitersMu,
                   waiters, chanPool, nChans, buf, chClosed, panicked,
                   takeVars, putVars, ypc, yres, histVars>>

\* Index of the first entry of the queue a whose close panics (close of a
\* closed channel): one closed before the loop or earlier in it.  Len(a) + 1
\* if there is none.
RECURSIVE FirstBadClose(_, _)
FirstBadClose(a, i) ==
    IF i > Len(a) THEN i
    ELSE IF chClosed[a[i]] \/ a[i] \in Range(SubSeq(a, 1, i - 1)) THEN i
    ELSE FirstBadClose(a, i + 1)

\* The Take calls that are blocked on their queued channel: in the select,
\* the channel empty and open, the context live.
BlockedWaiters ==
    {t \in Takers : /\ tpc[t] = "wait"
                    /\ tch[t] \in Range(waiters)
                    /\ buf[tch[t]] = <<>>
                    /\ ~chClosed[tch[t]]
                    /\ ~ctxDone[t]}

\* list.go:75-85: under waitersMu, Shift every waiter and close its channel.
CloseDrain(k) ==
    /\ ~panicked
    /\ cpc[k] = "drain"
    /\ waitersMu = Unlocked
    /\ LET bad == FirstBadClose(waiters, 1) IN
         /\ chClosed' = [c \in Chans |->
                            chClosed[c] \/ c \in Range(SubSeq(waiters, 1, bad - 1))]
         /\ waiters' = SubSeq(waiters, bad + 1, Len(waiters))
         /\ wowner' = SubSeq(wowner, bad + 1, Len(wowner))
         /\ panicked' = (bad <= Len(waiters))
         /\ cpc' = [cpc EXCEPT ![k] = IF bad <= Len(waiters) THEN "drain" ELSE "done"]
    /\ tAtClose' = [t \in Takers |-> tAtClose[t] \/ t \in BlockedWaiters]
    /\ UNCHANGED <<MaxItems, MaxWaiters, readyMu, ready, loads, waitersMu,
                   chanPool, closed, nChans, buf, takeVars, putVars, ypc, yres,
                   regNo, handNo, ptarget, pLate, tAfterClose, yClosed>>

--------------------------------------------------------------------------
Next ==
    \/ \E t \in Takers : Cancel(t)
    \/ \E t \in Takers : TakeBegin(t)
    \/ \E t \in Takers : TakeCheckClosed(t)
    \/ \E t \in Takers : TakeCheckCtx(t)
    \/ \E t \in Takers : TakeRegister(t)
    \/ \E t \in Takers : TakeSpawn(t)
    \/ \E t \in Takers : TakeRecv(t)
    \/ \E t \in Takers : HandleCancelDelete(t)
    \/ \E t \in Takers : HandleCancelRecv(t)
    \/ \E q \in PutIds : PutBegin(q)
    \/ \E q \in PutIds : PutHandoff(q)
    \/ \E q \in PutIds : PutSend(q)
    \/ \E q \in PutIds : PutLockReady(q)
    \/ \E q \in PutIds : PutHandoffLocked(q)
    \/ \E q \in PutIds : PutSendLocked(q)
    \/ \E y \in TryTakers : TryTake(y)
    \/ \E k \in Closers : CloseSwap(k)
    \/ \E k \in Closers : CloseDrain(k)

Spec == Init /\ [][Next]_vars

\* The steps of a call that is running.  The calls of Take, Put, TryTake
\* and Close by the user may never be made; a goroutine that Take spawned
\* (list.go:143) runs its Put.
TakeRunOpen(t) ==
    \/ TakeCheckClosed(t)
    \/ TakeCheckCtx(t)
    \/ TakeRegister(t)
    \/ TakeSpawn(t)
    \/ TakeRecv(t)

TakeRun(t) ==
    \/ TakeRunOpen(t)
    \/ HandleCancelDelete(t)
    \/ HandleCancelRecv(t)

PutRun(q) ==
    \/ q > NPutters /\ PutBegin(q)
    \/ PutHandoff(q)
    \/ PutSend(q)
    \/ PutLockReady(q)
    \/ PutHandoffLocked(q)
    \/ PutSendLocked(q)

\* The Go scheduler runs every goroutine that can run, and a mutex that is
\* released is acquired by a goroutine waiting for it: every running call
\* takes its next step if that step stays possible.  A TryTake call, which
\* is one step, is taken to have been made.
FairSpec ==
    /\ Spec
    /\ \A t \in Takers : WF_vars(TakeRun(t))
    /\ \A q \in PutIds : WF_vars(PutRun(q))
    /\ \A y \in TryTakers : WF_vars(TryTake(y))
    /\ \A k \in Closers : WF_vars(CloseDrain(k))

\* The runs in which Close is never called and no context is cancelled
\* during a call, under the same scheduling.
OpenNext ==
    \/ \E t \in Takers : TakeBegin(t)
    \/ \E t \in Takers : TakeCheckClosed(t)
    \/ \E t \in Takers : TakeCheckCtx(t)
    \/ \E t \in Takers : TakeRegister(t)
    \/ \E t \in Takers : TakeSpawn(t)
    \/ \E t \in Takers : TakeRecv(t)
    \/ \E q \in PutIds : PutBegin(q)
    \/ \E q \in PutIds : PutHandoff(q)
    \/ \E q \in PutIds : PutSend(q)
    \/ \E q \in PutIds : PutLockReady(q)
    \/ \E q \in PutIds : PutHandoffLocked(q)
    \/ \E q \in PutIds : PutSendLocked(q)
    \/ \E y \in TryTakers : TryTake(y)

OpenFairSpec ==
    /\ Init
    /\ [][OpenNext]_vars
    /\ \A t \in Takers : WF_vars(TakeRunOpen(t))
    /\ \A q \in PutIds : WF_vars(PutRun(q))

TypeOK ==
    /\ loads \in Nat
    /\ Len(waiters) = Len(wowner)
    /\ nChans <= NTakers
    /\ chanPool \subseteq 1..nChans

--------------------------------------------------------------------------
\* Properties

\* No context has been cancelled and Close has not been called.  Both facts
\* are stable: ctxDone[t] and closed are never reset.
NoCancelNoClose == ~closed /\ \A t \in Takers : ~ctxDone[t]

\* C1: FIFO service.  With no cancellation and no Close, the Take call whose
\* channel was the k-th to enter the waiters queue returns exactly the item
\* of the Put call that made the k-th successful Shift, with a nil error,
\* and it returns only after that Shift.
C1_Fifo ==
    NoCancelNoClose =>
        \A t \in Takers :
            (regNo[t] > 0 /\ tpc[t] = "done") =>
                /\ \E q \in PutIds : handNo[q] = regNo[t]
                /\ \A q \in PutIds :
                       handNo[q] = regNo[t] =>
                           tres[t] = [v |-> ItemOf(q), err |-> ErrNil]

\* Every Take call queued as a waiter and was served by a handoff, with no
\* cancellation and no Close.
C1_Witness ==
    /\ NoCancelNoClose
    /\ nHand = NTakers
    /\ \A t \in Takers : regNo[t] > 0 /\ tpc[t] = "done"

\* C2: bounded construction.  With MaxItems > 0 the loads counter and the
\* number of invocations of a load function never exceed MaxItems; loads
\* never decreases; a Take that returns a ready item (one recycled through
\* Put) leaves loads unchanged.
C2_BoundedLoads ==
    /\ [](MaxItems > 0 => (loads <= MaxItems /\ loadCalls <= MaxItems))
    /\ [][loads' >= loads]_vars
    /\ [][\A t \in Takers :
            (tpc[t] = "begin" /\ tpc'[t] = "done") => loads' = loads]_vars

\* The limit is reached and a Take call waits without having spawned a load.
C2_Witness ==
    /\ MaxItems > 0
    /\ loads = MaxItems
    /\ loadCalls = MaxItems
    /\ \E t \in Takers :
           /\ tpc[t] = "wait"
           /\ ~ctxDone[t]
           /\ ppc[LoaderOf(t)] = "unborn"

\* C3: with MaxWaiters > 0 the waiters queue never holds more than
\* MaxWaiters channels.
C3_MaxWaiters == MaxWaiters > 0 => Len(waiters) <= MaxWaiters

\* The queue is full and a further Take call is about to check the limit.
C3_Witness ==
    /\ MaxWaiters > 0
    /\ Len(waiters) = MaxWaiters
    /\ \E t \in Takers : tpc[t] = "register"

\* C4: a Take that reaches the MaxWaiters check (ready stack empty, List
\* open and context live when it looked) with the queue holding MaxWaiters
\* channels returns ErrMaxWaiters in that step, and the step changes neither
\* the waiters queue nor the ready stack nor loads and spawns no goroutine.
C4_RejectNoEffect ==
    [][\A t \in Takers :
          (/\ tpc[t] = "register"
           /\ MaxWaiters > 0
           /\ Len(waiters) >= MaxWaiters
           /\ tpc'[t] # "register") =>
              /\ tpc'[t] = "done"
              /\ tres'[t] = [v |-> Zero, err |-> ErrMaxWaiters]
              /\ UNCHANGED <<waiters, ready, loads, ppc, chanPool, buf>>]_vars

\* A Take call has returned ErrMaxWaiters while another one is queued.
C4_Witness ==
    \E t \in Takers :
        /\ tpc[t] = "done"
        /\ tres[t].err = ErrMaxWaiters
        /\ waiters # <<>>

\* C5: drain precedence.  A Take that finds the ready stack non-empty pops
\* its top item and returns it with a nil error in that step, whatever the
\* context and the closed flag; it queues no waiter and leaves loads alone.
C5_DrainFirst ==
    [][\A t \in Takers :
          (tpc[t] = "begin" /\ ready # <<>> /\ tpc'[t] # "begin") =>
              /\ tpc'[t] = "done"
              /\ tres'[t] = [v |-> ready[Len(ready)], err |-> ErrNil]
              /\ ready' = SubSeq(ready, 1, Len(ready) - 1)
              /\ UNCHANGED <<waiters, loads, ppc, regNo>>]_vars

\* A Take call that began after Close had returned, with a cancelled
\* context, returned a ready item.
C5_Witness ==
    \E t \in Takers :
        /\ tpc[t] = "done"
        /\ tres[t].err = ErrNil
        /\ regNo[t] = 0
        /\ ctxDone[t]
        /\ tAfterClose[t]

\* C6: a Put that begins with the closed flag set returns false in that
\* step and changes neither the ready stack nor the waiters queue nor any
\* channel.
C6_PutAfterClose ==
    [][\A q \in PutIds :
          (ppc[q] = "begin" /\ closed /\ ppc'[q] # "begin") =>
              /\ ppc'[q] = "done"
              /\ pres'[q] = "false"
              /\ UNCHANGED <<ready, waiters, buf, chClosed, chanPool>>]_vars

\* A Put call that began with the closed flag set has returned.
C6_Witness == \E q \in PutIds : pLate[q] /\ ppc[q] = "done"

\* C7: every Take that is blocked in the waiters queue when Close drains it,
\* and whose context is not cancelled, returns ErrClosed: it has returned
\* ErrClosed, or it is in its select with its channel closed and empty, so
\* that the receive case can run.
C7_CloseUnblocks ==
    \A t \in Takers :
        (tAtClose[t] /\ ~ctxDone[t]) =>
            \/ tpc[t] = "done" /\ tres[t] = [v |-> Zero, err |-> ErrClosed]
            \/ /\ tpc[t] = "wait"
               /\ ~panicked
               /\ chClosed[tch[t]]
               /\ buf[tch[t]] = <<>>

\* C8: a Take that begins after a Close call has returned and finds the
\* ready stack empty goes straight to the closed check and returns
\* ErrClosed there, whatever its context: it queues no waiter, spawns no
\* goroutine and leaves loads, the queue and the ready stack unchanged.
C8_TakeAfterClose ==
    /\ [](\A t \in Takers :
            (tAfterClose[t] /\ tpc[t] # "begin") =>
                /\ tpc[t] \in {"checkClosed", "done"}
                /\ regNo[t] = 0
                /\ ppc[LoaderOf(t)] = "unborn"
                /\ tpc[t] = "done" => tres[t].err \in {ErrNil, ErrClosed})
    /\ [][\A t \in Takers :
            (tAfterClose[t] /\ tpc[t] = "checkClosed" /\ tpc'[t] # "checkClosed") =>
                /\ tpc'[t] = "done"
                /\ tres'[t] = [v |-> Zero, err |-> ErrClosed]
                /\ UNCHANGED <<waiters, ready, loads, ppc>>]_vars

\* A Take call that began after Close had returned, with a cancelled
\* context, returned ErrClosed.
C8_Witness ==
    \E t \in Takers :
        /\ tAfterClose[t]
        /\ ctxDone[t]
        /\ tpc[t] = "done"
        /\ tres[t] = [v |-> Zero, err |-> ErrClosed]

\* C9: no lost value.  When a Put has returned true after shifting a
\* waiter's channel off the queue, the Take call that queued that channel
\* returns the Put's item with a nil error, also when its context is
\* cancelled between the Shift and the send.
C9_NoLostHandoff ==
    \A q \in PutIds :
        (/\ ppc[q] = "done"
         /\ pres[q] = "true"
         /\ ptarget[q] # 0
         /\ tpc[ptarget[q]] = "done") =>
            tres[ptarget[q]] = [v |-> ItemOf(q), err |-> ErrNil]

\* C10: when a Take that waited returns the cancellation cause, its channel
\* is not in the waiters queue, before and after the step that returns.
C10_CancelCleansQueue ==
    [][\A t \in Takers :
          (/\ tpc[t] = "cancelRecv"
           /\ tpc'[t] = "done"
           /\ tres'[t].err = ErrCanceled) =>
              /\ tch[t] \notin Range(waiters)
              /\ tch[t] \notin Range(waiters')]_vars

\* A Take call that had queued a channel returned the cancellation cause
\* while another Take call is queued.
C10_Witness ==
    \E t \in Takers :
        /\ regNo[t] > 0
        /\ tpc[t] = "done"
        /\ tres[t].err = ErrCanceled
        /\ waiters # <<>>

\* C11: early cancel.  A Take that has found the ready stack empty and whose
\* context is cancelled (as it is throughout for a context cancelled before
\* the call) moves, on an open List, from the closed check to the context
\* check and returns the cancellation cause there; these steps wait for
\* nothing, queue no channel, start no load and leave loads unchanged.
C11_EarlyCancel ==
    /\ [](\A t \in Takers :
            (ctxDone[t] /\ tpc[t] \in {"checkClosed", "checkCtx"}) =>
                /\ readyMu = <<"take", t>>
                /\ regNo[t] = 0
                /\ ppc[LoaderOf(t)] = "unborn"
                /\ ENABLED (TakeCheckClosed(t) \/ TakeCheckCtx(t)))
    /\ [][\A t \in Takers :
            (ctxDone[t] /\ tpc[t] = "checkClosed" /\ ~closed
                 /\ tpc'[t] # "checkClosed") =>
                /\ tpc'[t] = "checkCtx"
                /\ UNCHANGED <<waiters, ready, loads, ppc, regNo, chanPool, buf>>]_vars
    /\ [][\A t \in Takers :
            (ctxDone[t] /\ tpc[t] = "checkCtx" /\ tpc'[t] # "checkCtx") =>
                /\ tpc'[t] = "done"
                /\ tres'[t] = [v |-> Zero, err |-> ErrCanceled]
                /\ UNCHANGED <<waiters, ready, loads, ppc, regNo, chanPool, buf>>]_vars

\* A Take call has returned the cancellation cause without having queued,
\* with no load started for it, on a List that is still open.
C11_Witness ==
    \E t \in Takers :
        /\ tpc[t] = "done"
        /\ tres[t] = [v |-> Zero, err |-> ErrCanceled]
        /\ regNo[t] = 0
        /\ ppc[LoaderOf(t)] = "unborn"
        /\ ~closed

\* C12: Close is irreversible and idempotent.  The closed flag, once set,
\* stays set; a Close call that finds it set returns in that step and
\* changes neither the flag nor the waiters queue, the ready stack, loads,
\* chanPool or any channel.
C12_CloseIdempotent ==
    /\ [][closed => closed']_vars
    /\ [][\A k \in Closers :
            (cpc[k] = "begin" /\ closed /\ cpc'[k] # "begin") =>
                /\ cpc'[k] = "done"
                /\ UNCHANGED <<closed, waiters, ready, loads, buf, chClosed,
                               chanPool, readyMu, waitersMu>>]_vars

\* A second Close call has returned while the first is still to drain a
\* non-empty waiters queue.
C12_Witness ==
    /\ cpc[1] = "drain"
    /\ cpc[2] = "done"
    /\ waiters # <<>>

\* C13: TryTake pops the ready stack in one step: found = true with the top
\* item exactly when the stack is non-empty, whatever the closed flag; it
\* changes neither the waiters queue nor loads, the closed flag, chanPool or
\* any channel, and starts no load.
C13_TryTakeFrame ==
    [][\A y \in TryTakers :
          (ypc[y] = "begin" /\ ypc'[y] # "begin") =>
              /\ ypc'[y] = "done"
              /\ IF ready # <<>>
                 THEN /\ yres'[y] = [v |-> ready[Len(ready)], ok |-> TRUE]
                      /\ ready' = SubSeq(ready, 1, Len(ready) - 1)
                 ELSE /\ yres'[y] = [v |-> Zero, ok |-> FALSE]
                      /\ ready' = ready
              /\ UNCHANGED <<waiters, loads, closed, chanPool, buf, chClosed,
                             ppc, regNo, nChans>>]_vars

\* A TryTake call that ran with the closed flag set has returned an item.
C13_Witness ==
    \E y \in TryTakers :
        /\ ypc[y] = "done"
        /\ yres[y].ok
        /\ yClosed[y]

\* A Put call that is running: past its first closed.Load, or the call of a
\* spawned goroutine.
PutRunning(q) ==
    \/ ppc[q] \in {"handoff", "send", "lockReady", "handoffLocked", "sendLocked"}
    \/ q > NPutters /\ ppc[q] = "begin"

\* The call that holds mutex mu can take its next step.
HolderCanStep(mu) ==
    \/ \E t \in Takers : mu = <<"take", t>> /\ ENABLED TakeRun(t)
    \/ \E q \in PutIds : mu = <<"put", q>> /\ ENABLED PutRun(q)

\* Every running Put call, every Close call that drains and every TryTake
\* call can take its next step, or waits for a mutex whose holder can take
\* its next step.
NothingButTakeBlocks ==
    /\ \A q \in PutIds :
           PutRunning(q) =>
               \/ ENABLED PutRun(q)
               \/ ppc[q] = "lockReady" /\ HolderCanStep(readyMu)
               \/ ppc[q] \in {"handoff", "handoffLocked"} /\ HolderCanStep(waitersMu)
    /\ \A k \in Closers :
           cpc[k] = "drain" =>
               ENABLED CloseDrain(k) \/ HolderCanStep(waitersMu)
    /\ \A y \in TryTakers :
           ypc[y] = "begin" =>
               ENABLED TryTake(y) \/ HolderCanStep(readyMu)

\* The two mutexes are never held in a cycle: waitersMu is held across
\* steps only by the Take call that also holds readyMu.
NoLockCycle == waitersMu # Unlocked => readyMu = waitersMu

\* C14: only Take blocks.  However the calls interleave and however many
\* Take calls are blocked, every running Put, Close and TryTake call can
\* take its next step or waits for a mutex whose holder can, and the two
\* mutexes are never held in a cycle.  Every step moves a call forward for
\* good, so under fair scheduling this is the same as: every such call
\* returns.
C14_OnlyTakeBlocks == NothingButTakeBlocks /\ NoLockCycle

\* The same, in the states in which the program has not panicked.
C14_UnlessPanic == panicked \/ (NothingButTakeBlocks /\ NoLockCycle)

\* C15: single write per cell.  A send of Put that succeeds writes a channel
\* whose owning Take (the call that queued the entry Put shifted) has not
\* returned, and no send of Put panics: the channel a Put sends on is never
\* full and never closed.
C15_SingleWrite ==
    [][\A q \in PutIds :
          ppc[q] \in {"send", "sendLocked"} =>
              /\ ppc'[q] = "done" => tpc[ptarget[q]] # "done"
              /\ (panicked' /\ UNCHANGED <<waiters, chClosed>>) =>
                     (buf[pch[q]] = <<>> /\ ~chClosed[pch[q]])]_vars

\* C16: handoff before stacking.  The ready stack and the waiters queue are
\* never both non-empty: the ready stack grows only in a step that finds
\* and leaves the waiters queue empty, and the waiters queue grows only in a
\* step that finds and leaves the ready stack empty.
C16_HandoffBeforeStacking ==
    /\ [](ready = <<>> \/ waiters = <<>>)
    /\ [][Len(ready') > Len(ready) => (waiters = <<>> /\ waiters' = <<>>)]_vars
    /\ [][Len(waiters') > Len(waiters) => (ready = <<>> /\ ready' = <<>>)]_vars

\* A Put call has shifted a waiter's channel off the queue, another Put call
\* has found no waiter and pushed its item, and the ready stack holds an
\* item.
C16_Witness ==
    /\ ready # <<>>
    /\ \E q \in PutIds :
           /\ ppc[q] = "done"
           /\ pres[q] = "true"
           /\ handNo[q] = 0
    /\ \E q \in PutIds :
           /\ ppc[q] = "done"
           /\ handNo[q] > 0

\* C17: no waiter survives Close.  Once the Close call that set the closed
\* flag has returned, the waiters queue is empty, and no Take call is in its
\* select on an open, empty channel with a live context.
C17_NoWaiterAfterClose ==
    cpc[1] = "done" =>
        /\ waiters = <<>>
        /\ \A t \in Takers :
               (tpc[t] = "wait" /\ ~ctxDone[t]) =>
                   (buf[tch[t]] # <<>> \/ chClosed[tch[t]])

\* C18: a closed List only drains.  With the closed flag set no step makes
\* the ready stack longer, and the step in which a Put pushes or sends its
\* item and returns true is taken with the flag not set.
C18_ClosedOnlyDrains ==
    /\ [][closed => Len(ready') <= Len(ready)]_vars
    /\ [][\A q \in PutIds :
            (pres[q] # "true" /\ pres'[q] = "true") => ~closed]_vars

\* Take call t has queued its channel and spawned its load goroutine: it
\* found MaxItems = 0 or loads < MaxItems (list.go:138).
QueuedWithLoad(t) == regNo[t] > 0 /\ ppc[LoaderOf(t)] # "unborn"

\* C19: Take progress.  In a run in which the List is never closed and no
\* context is cancelled, every Take call that has queued its channel and
\* spawned its load goroutine returns, under fair scheduling, the item of a
\* Put call with a nil error.
C19_TakeProgress ==
    \A t \in Takers :
        QueuedWithLoad(t) ~>
            \/ ~NoCancelNoClose
            \/ /\ tpc[t] = "done"
               /\ tres[t].err = ErrNil
               /\ \E q \in PutIds : tres[t].v = ItemOf(q)

\* Every Take call queued and spawned a load, and every one has returned an
\* item, with no Close and no cancelled context.
C19_Witness ==
    /\ NoCancelNoClose
    /\ \A t \in Takers :
           /\ QueuedWithLoad(t)
           /\ tpc[t] = "done"
           /\ tres[t].err = ErrNil

\* The items that calls have returned: by Take with a nil error, by TryTake
\* with ok = true.
TakenBy(t) == IF tpc[t] = "done" /\ tres[t].err = ErrNil THEN {tres[t].v} ELSE {}
TriedBy(y) == IF ypc[y] = "done" /\ yres[y].ok THEN {yres[y].v} ELSE {}

\* C20: no phantom and no duplicated item.  Every item returned by Take with
\* a nil error or by TryTake with ok = true is the item of a Put call that
\* returned true, and no item is returned by two calls; so no Take returns
\* the zero value with a nil error, which no Put call carries.
C20_NoPhantom ==
    /\ \A t \in Takers : \A v \in TakenBy(t) :
           \E q \in PutIds : v = ItemOf(q) /\ pres[q] = "true"
    /\ \A y \in TryTakers : \A v \in TriedBy(y) :
           \E q \in PutIds : v = ItemOf(q) /\ pres[q] = "true"
    /\ \A t, u \in Takers : t # u => TakenBy(t) \cap TakenBy(u) = {}
    /\ \A t \in Takers : \A y \in TryTakers : TakenBy(t) \cap TriedBy(y) = {}
    /\ \A y, z \in TryTakers : y # z => TriedBy(y) \cap TriedBy(z) = {}

\* C21: free-list hygiene.  Every channel in chanPool is empty, open and
\* not in the waiters queue, and no channel is in the waiters queue twice.
C21_PoolHygiene ==
    /\ \A c \in chanPool :
           /\ buf[c] = <<>>
           /\ ~chClosed[c]
           /\ c \notin Range(waiters)
    /\ \A i, j \in 1..Len(waiters) : i # j => waiters[i] # waiters[j]

====
